---- MODULE Spec2Model ----
(***************************************************************************)
(* Material resolution and mesh rewrite of the asset-preparation scripts:  *)
(*   src/script.py              (module-level pipeline, "script")          *)
(*   src/scripts/mtl_creator.py (process_obj, "creator")                   *)
(* Both rewrite the same mesh file in place and write the sibling material *)
(* file; each writes its own missing report.                               *)
(*                                                                         *)
(* Text is modelled as sequences of code points (so that lower(), the      *)
(* split at "." / whitespace and Python's sorted() are computed, not       *)
(* assumed).  Numbers are exact rationals <<num, den>>; Python's           *)
(* float -> repr -> float round trip is exact, float rounding of the       *)
(* product is not modelled.                                                *)
(***************************************************************************)
EXTENDS Integers, Sequences, FiniteSets, TLC

\* ------------------------------------------------------------------ bounds
MaxLines == 2
MaxRuns == 2

\* ------------------------------------------------------------------ text
DOT == 46
SPACE == 32

Min(S) == CHOOSE x \in S : \A y \in S : x <= y

lower(s) == [i \in DOMAIN s |-> IF s[i] >= 65 /\ s[i] <= 90 THEN s[i] + 32 ELSE s[i]]

\* s.split(sep, 1)[0] for a set of separator characters
SplitHead(s, seps) ==
  LET hits == {i \in DOMAIN s : s[i] \in seps}
  IN IF hits = {} THEN s ELSE SubSeq(s, 1, Min(hits) - 1)

\* script.py: name.split(".", 1)[0].lower()
normalize(name) == lower(SplitHead(name, {DOT}))

\* mtl_creator.py: re.split(r"[.\s]", mat_name)[0].lower()
simple_name(name) == lower(SplitHead(name, {DOT, SPACE, 9, 10, 11, 12, 13}))

\* Python str "<" : lexicographic on code points, a proper prefix is smaller
RECURSIVE StrLess(_, _)
StrLess(a, b) ==
  IF b = <<>> THEN FALSE
  ELSE IF a = <<>> THEN TRUE
  ELSE IF Head(a) # Head(b) THEN Head(a) < Head(b)
  ELSE StrLess(Tail(a), Tail(b))

\* sorted(S) for a set of strings
RECURSIVE sorted(_)
sorted(S) ==
  IF S = {} THEN <<>>
  ELSE LET m == CHOOSE x \in S : \A y \in S \ {x} : StrLess(x, y)
       IN <<m>> \o sorted(S \ {m})

Range(f) == {f[i] : i \in DOMAIN f}

\* all orders in which a set can be iterated
Orders(S) == {f \in [1..Cardinality(S) -> S] : Range(f) = S}

\* ------------------------------------------------------------------ numbers
RECURSIVE Gcd(_, _)
Gcd(a, b) == IF b = 0 THEN a ELSE Gcd(b, a % b)

\* float(x) * factor on exact rationals, reduced
Times(x, f) ==
  LET n == x[1] * f[1]
      d == x[2] * f[2]
      g == Gcd(n, d)
  IN IF n = 0 THEN <<0, 1>> ELSE <<n \div g, d \div g>>

\* script.py: SCALE_FACTOR = 0.01
SCALE_FACTOR == <<1, 100>>

\* mtl_creator.py: scale_map
Units == {"meters", "centimeters", "ue4", "uu"}
scale_map ==
  [u \in Units |->
     CASE u = "meters" -> <<1905, 100000>>
       [] u = "centimeters" -> <<1905, 1000>>
       [] u = "ue4" -> <<1905, 1000>>
       [] u = "uu" -> <<1, 1>>]

\* ------------------------------------------------------------------ lines
\* k    : "v" (starts with "v "), "usemtl", "mtllib", "marker" (a comment
\*        holding the token UT2_SCALED_TO_), "other"
\* c    : the numeric fields of a vertex line
\* name : the material name of a usemtl line (<<>> : the line is "usemtl \n",
\*        the directive and a blank with no name after it)
\* arg  : file of a mtllib line / target unit named by a marker line
\* txt  : "orig" text as found in the input, "fmt" text produced by the
\*        f-string "v {v[0]} {v[1]} {v[2]}\n"
Line(k, c, name, arg, txt) == [k |-> k, c |-> c, name |-> name, arg |-> arg, txt |-> txt]

NameAb == <<65, 46, 98>>  \* "A.b"
NameB == <<66>>           \* "B"
Namea == <<97>>           \* "a"
Names == {NameAb, NameB, Namea}

VertexLines ==
  { Line("v", <<<<1, 1>>, <<2, 1>>, <<3, 1>>>>, <<>>, "", "orig"),         \* v 1.0 2.0 3.0
    Line("v", <<<<1, 1>>, <<2, 1>>>>, <<>>, "", "orig") }                   \* v 1.0 2.0

UseLines == {Line("usemtl", <<>>, n, "", "orig") : n \in Names \cup {<<>>}}

InputLines ==
  VertexLines \cup UseLines \cup
  { Line("mtllib", <<>>, <<>>, "old.mtl", "orig"),
    Line("marker", <<>>, <<>>, "meters", "orig"),
    Line("other", <<>>, <<>>, "", "orig") }

RECURSIVE SeqsUpTo(_, _)
SeqsUpTo(S, n) ==
  IF n = 0 THEN {<<>>}
  ELSE LET shorter == SeqsUpTo(S, n - 1)
       IN shorter \cup {Append(s, x) : s \in {t \in shorter : Len(t) = n - 1}, x \in S}

MeshDocuments == SeqsUpTo(InputLines, MaxLines)


\* ------------------------------------------------------------------ paths
Path(abs, drive, up, dirs, file) ==
  [abs |-> abs, drive |-> drive, up |-> up, dirs |-> dirs, file |-> file]

\* os.path.dirname(obj_path)
ObjDir == Path(TRUE, "C", 0, <<"ut", "DM-Rankin">>, "")

RECURSIVE CommonLen(_, _)
CommonLen(a, b) ==
  IF a = <<>> \/ b = <<>> \/ Head(a) # Head(b) THEN 0
  ELSE 1 + CommonLen(Tail(a), Tail(b))

\* os.path.relpath(p, start); ValueError when the drives differ
RelPathRaises(p, start) == p.drive # start.drive

RelPath(p, start) ==
  LET n == CommonLen(p.dirs, start.dirs)
  IN Path(FALSE, "", Len(start.dirs) - n, SubSeq(p.dirs, n + 1, Len(p.dirs)), p.file)

Keya == <<97>>   \* "a"
Keyt == <<116>>  \* "t"
TextureKeys == {Keya, Keyt}

\* mtl_creator.py build_texture_cache: stem -> absolute path
CacheEntry(k) ==
  IF k = Keya THEN Path(TRUE, "C", 0, <<"ut", "Textures">>, "a.png")
  ELSE Path(TRUE, "D", 0, <<"shared">>, "t.tga")

\* script.py load_or_build_texture_index: stem -> path relative to the mesh
IndexEntry(k) ==
  IF k = Keya THEN Path(FALSE, "", 1, <<"Textures">>, "a.png")
  ELSE Path(FALSE, "", 0, <<>>, "t.tga")

\* ------------------------------------------------------------------ shaders
Dict(diffuse, diffuseTexture, opacity) ==
  [Diffuse |-> diffuse, DiffuseTexture |-> diffuseTexture, Opacity |-> opacity]

\* a key that is absent reads as None; None and "" are both falsy: <<>>
EmptyDict == Dict(<<>>, <<>>, <<>>)

NoShaders == [b \in {} |-> EmptyDict]

\* a.mat : Diffuse=T            b.props.txt : DiffuseTexture=..T  Opacity=..A
ShaderTree ==
  [b \in {<<97>>, <<98>>} |->
     IF b = <<97>> THEN Dict(<<84>>, <<>>, <<>>)
     ELSE Dict(<<>>, <<84>>, <<65>>)]

ShaderTrees == {NoShaders, ShaderTree}

\* ------------------------------------------------------------------ files
NoFile == [exists |-> FALSE, body |-> <<>>]
File(body) == [exists |-> TRUE, body |-> body]

Block(tool, newmtl, map_Kd, map_d) ==
  [tool |-> tool, newmtl |-> newmtl, map_Kd |-> map_Kd, map_d |-> map_d]

NoRun == [tool |-> "none", outcome |-> "none", unit |-> "", pre |-> <<>>, missing |-> <<>>]
Run(tool, outcome, unit, pre, missing) ==
  [tool |-> tool, outcome |-> outcome, unit |-> unit, pre |-> pre, missing |-> missing]

VARIABLES
  obj,                \* the mesh file OBJ_PATH / obj_path, a sequence of lines
  mtl,                \* the material file mtl_path / export_mtl_path (sequence of blocks)
  missing_materials,  \* <mesh>_missing_materials.txt   (script.py)
  missing_textures,   \* <mesh>_missing_textures.txt    (mtl_creator.py)
  textures,           \* stems present in the texture index / cache
  shaders,            \* shader files below BASE_ASSET_DIR: base -> dict
  run,                \* the latest run: tool, outcome, inputs, computed missing list
  runs                \* number of runs so far

vars == <<obj, mtl, missing_materials, missing_textures, textures, shaders, run, runs>>

Init ==
  /\ obj \in MeshDocuments
  /\ mtl = NoFile
  /\ missing_materials = NoFile
  /\ missing_textures = NoFile
  /\ textures \in SUBSET TextureKeys
  /\ shaders \in ShaderTrees
  /\ run = NoRun
  /\ runs = 0

\* ------------------------------------------------------------------ script.py
texture_index == [k \in textures |-> IndexEntry(k)]

resolve_shader(material_base) ==
  IF material_base \in DOMAIN shaders THEN shaders[material_base] ELSE EmptyDict

\* x or y
Or(x, y) == IF x # <<>> THEN x ELSE y

Indices(lines, k) == {i \in DOMAIN lines : lines[i].k = k}

\* line.split(None, 1)[1] raises IndexError on a usemtl line without a name
ScriptParseRaises(lines) == \E i \in Indices(lines, "usemtl") : lines[i].name = <<>>

\* the set is keyed by the normalized name instead of the raw name
ScriptMaterials_Normalized(lines) == {normalize(lines[i].name) : i \in Indices(lines, "usemtl")}

ScriptMaterials(lines) == {lines[i].name : i \in Indices(lines, "usemtl")}

\* the directive is looked for under a misspelt prefix
ScriptHasMtllib_Misspelt(lines) == Indices(lines, "mtlib") # {}

ScriptHasMtllib(lines) == Indices(lines, "mtllib") # {}

ScriptDiffuse(mat) ==
  LET shader == resolve_shader(normalize(mat))
  IN lower(Or(shader.Diffuse, shader.DiffuseTexture))

ScriptOpacity(mat) == lower(resolve_shader(normalize(mat)).Opacity)

\* an indirect key that misses the index ends the lookup
ScriptMapKd_NoFallback(mat) ==
  LET base == normalize(mat)
      diffuse == ScriptDiffuse(mat)
  IN IF diffuse # <<>>
     THEN (IF diffuse \in DOMAIN texture_index THEN <<texture_index[diffuse]>> ELSE <<>>)
     ELSE IF base \in DOMAIN texture_index THEN <<texture_index[base]>>
     ELSE <<>>

ScriptMapKd(mat) ==
  LET base == normalize(mat)
      diffuse == ScriptDiffuse(mat)
  IN IF diffuse # <<>> /\ diffuse \in DOMAIN texture_index THEN <<texture_index[diffuse]>>
     ELSE IF base \in DOMAIN texture_index THEN <<texture_index[base]>>
     ELSE <<>>

ScriptMapD(mat) ==
  LET opacity == ScriptOpacity(mat)
  IN IF opacity # <<>> /\ opacity \in DOMAIN texture_index THEN <<texture_index[opacity]>>
     ELSE <<>>

ScriptBlock(mat) == Block("script", mat, ScriptMapKd(mat), ScriptMapD(mat))

\* for mat in sorted(materials): ...
ScriptMtl(lines) ==
  LET order == sorted(ScriptMaterials(lines))
  IN [i \in DOMAIN order |-> ScriptBlock(order[i])]

\* missing.append(mat) in the else branch, in loop order
ScriptMissing(lines) ==
  SelectSeq(sorted(ScriptMaterials(lines)), LAMBDA m : ScriptMapKd(m) = <<>>)

\* v[2] raises IndexError when the line has fewer than three numeric fields
VertexRaises(line) == Len(line.c) < 3

ScaleVertex(line, factor) ==
  Line("v", [i \in 1..3 |-> Times(line.c[i], factor)], <<>>, "", "fmt")

\* every line is re-rendered, not only the vertex lines
ScriptRewriteLine_Rerender(l) ==
  IF l.k = "v" THEN ScaleVertex(l, SCALE_FACTOR) ELSE Line(l.k, l.c, l.name, l.arg, "fmt")

ScriptRewriteLine(l) == IF l.k = "v" THEN ScaleVertex(l, SCALE_FACTOR) ELSE l

ScriptRewriteRaises(lines) ==
  /\ ~ScriptHasMtllib(lines)
  /\ \E i \in Indices(lines, "v") : VertexRaises(lines[i])

ScriptRewrite(lines) ==
  IF ScriptHasMtllib(lines) THEN lines
  ELSE <<Line("mtllib", <<>>, <<>>, "rankin.mtl", "fmt")>>
         \o [i \in DOMAIN lines |-> ScriptRewriteLine(lines[i])]

ScriptLog(missing) == IF missing # <<>> THEN File(sorted(Range(missing))) ELSE missing_materials

RunScript ==
  /\ runs < MaxRuns
  /\ runs' = runs + 1
  /\ UNCHANGED <<textures, shaders, missing_textures>>
  /\ IF ScriptParseRaises(obj)
     THEN /\ run' = Run("script", "parse_error", "", obj, <<>>)
          /\ UNCHANGED <<obj, mtl, missing_materials>>
     ELSE /\ mtl' = File(ScriptMtl(obj))
          /\ IF ScriptRewriteRaises(obj)
             THEN /\ run' = Run("script", "vertex_error", "", obj, ScriptMissing(obj))
                  /\ UNCHANGED <<obj, missing_materials>>
             ELSE /\ obj' = ScriptRewrite(obj)
                  /\ missing_materials' = ScriptLog(ScriptMissing(obj))
                  /\ run' = Run("script", "done", "", obj, ScriptMissing(obj))

\* ------------------------------------------------------------------ mtl_creator.py
\* load_texture_cache
texture_map == [k \in textures |-> CacheEntry(k)]

\* target_unit = "meters"  # meters | centimeters | ue4 | uu
TargetUnits == {"meters", "uu"}

\* line.strip().split(" ", 1)[1] raises IndexError on "usemtl \n"
CreatorParseRaises(lines) == \E i \in Indices(lines, "usemtl") : lines[i].name = <<>>

\* materials_in_obj: a set of (mat_name, simple_name) pairs
CreatorMaterials(lines) ==
  {<<lines[i].name, simple_name(lines[i].name)>> : i \in Indices(lines, "usemtl")}

CreatorHasMtllib(lines) == \E i \in DOMAIN lines : lines[i].k = "mtllib"

already_scaled(lines) == \E i \in DOMAIN lines : lines[i].k = "marker"

\* the map_Kd value: relpath from the mesh directory, the absolute path on ValueError
CreatorTexPath(abs_tex_path) ==
  IF RelPathRaises(abs_tex_path, ObjDir) THEN abs_tex_path ELSE RelPath(abs_tex_path, ObjDir)

\* texture_map.get(simple_name), tested for truth (every cached path is non-empty)
CreatorMapKd(simple) ==
  IF simple \in DOMAIN texture_map THEN <<CreatorTexPath(texture_map[simple])>> ELSE <<>>

CreatorBlock(pair) == Block("creator", pair[1], CreatorMapKd(pair[2]), <<>>)

\* for full_name, simple_name in materials_in_obj: the iteration order of a set
\* of strings is not fixed (hash order), any order can come out
CreatorOrders(lines) == Orders(CreatorMaterials(lines))

CreatorMtl(order) == [i \in DOMAIN order |-> CreatorBlock(order[i])]

CreatorMissing(order) ==
  LET unresolved == SelectSeq(order, LAMBDA pair : CreatorMapKd(pair[2]) = <<>>)
  IN [i \in DOMAIN unresolved |-> unresolved[i][1]]

\* Step 3
CreatorInsertMtllib(lines) ==
  IF CreatorHasMtllib(lines) THEN lines
  ELSE <<Line("mtllib", <<>>, <<>>, "rankin.mtl", "fmt")>> \o lines

\* the test scale_factor != 1.0 is left out
CreatorScales_AnyFactor(lines, unit) == ~CreatorHasMtllib(lines) /\ ~already_scaled(lines)

\* the condition of Step 4
CreatorScales(lines, unit) ==
  ~CreatorHasMtllib(lines) /\ ~already_scaled(lines) /\ scale_map[unit] # <<1, 1>>

CreatorRewriteLine(l, unit) == IF l.k = "v" THEN ScaleVertex(l, scale_map[unit]) ELSE l

CreatorRewriteRaises(lines, unit) ==
  /\ CreatorScales(lines, unit)
  /\ \E i \in Indices(lines, "v") : VertexRaises(lines[i])

\* Step 3 and Step 4
CreatorRewrite(lines, unit) ==
  LET with_lib == CreatorInsertMtllib(lines)
  IN IF CreatorScales(lines, unit)
     THEN <<Line("marker", <<>>, <<>>, unit, "fmt")>>
            \o [i \in DOMAIN with_lib |-> CreatorRewriteLine(with_lib[i], unit)]
     ELSE with_lib

\* Step 5
CreatorLog(missing) == IF missing # <<>> THEN File(missing) ELSE missing_textures

RunCreator ==
  /\ runs < MaxRuns
  /\ runs' = runs + 1
  /\ UNCHANGED <<textures, shaders, missing_materials>>
  /\ \E unit \in TargetUnits :
       IF CreatorParseRaises(obj)
       THEN /\ run' = Run("creator", "parse_error", unit, obj, <<>>)
            /\ UNCHANGED <<obj, mtl, missing_textures>>
       ELSE \E order \in CreatorOrders(obj) :
              /\ mtl' = File(CreatorMtl(order))
              /\ IF CreatorRewriteRaises(obj, unit)
                 THEN /\ run' = Run("creator", "vertex_error", unit, obj, CreatorMissing(order))
                      /\ UNCHANGED <<obj, missing_textures>>
                 ELSE /\ obj' = CreatorRewrite(obj, unit)
                      /\ missing_textures' = CreatorLog(CreatorMissing(order))
                      /\ run' = Run("creator", "done", unit, obj, CreatorMissing(order))

\* ------------------------------------------------------------------ environment
\* texture files appear or disappear and the index / cache is rebuilt
BuildTextureCache ==
  /\ \E t \in SUBSET TextureKeys : t # textures /\ textures' = t
  /\ UNCHANGED <<obj, mtl, missing_materials, missing_textures, shaders, run, runs>>

Next == RunScript \/ RunCreator \/ BuildTextureCache

Spec == Init /\ [][Next]_vars

\* ------------------------------------------------------------------ properties
HasKind(lines, k) == \E i \in DOMAIN lines : lines[i].k = k
CountKind(lines, k) == Cardinality({i \in DOMAIN lines : lines[i].k = k})
VerticesOf(lines) == SelectSeq(lines, LAMBDA l : l.k = "v")
UsedNames(lines) == {lines[i].name : i \in {j \in DOMAIN lines : lines[j].k = "usemtl"}}
BlockNames == [i \in DOMAIN mtl.body |-> mtl.body[i].newmtl]
Unresolved == {mtl.body[i].newmtl : i \in {j \in DOMAIN mtl.body : mtl.body[j].map_Kd = <<>>}}
Report == IF run.tool = "script" THEN missing_materials ELSE missing_textures
IsRun == runs' = runs + 1
Malformed(l) == (l.k = "v" /\ Len(l.c) < 3) \/ (l.k = "usemtl" /\ l.name = <<>>)

\* C1 - idempotence of the rewrite: a run that follows a run of the same tool
\* with the same scale factor leaves the mesh text exactly as the first run
\* left it, apply(apply(D, s), s) = apply(D, s).
C1_Idempotent ==
  [][(IsRun /\ run.tool # "none" /\ run'.tool = run.tool /\ run'.unit = run.unit)
       => obj' = obj]_vars

\* C1 witness: process_obj ran twice with "meters"; the first run scaled a
\* vertex and put the marker on top, the second run wrote the same text back.
C1_Witness ==
  /\ runs = 2 /\ run.tool = "creator" /\ run.unit = "meters" /\ run.outcome = "done"
  /\ run.pre = obj
  /\ Len(obj) >= 3
  /\ obj[1] = Line("marker", <<>>, <<>>, "meters", "fmt")
  /\ \E i \in DOMAIN obj : obj[i].k = "v" /\ obj[i].txt = "fmt"

\* C2 - rescaling at most once: a run on a document that already holds a
\* rescale marker or a mtllib line multiplies no vertex coordinate and adds no
\* marker.
C2_AtMostOnce ==
  (run.tool # "none" /\ (HasKind(run.pre, "marker") \/ HasKind(run.pre, "mtllib")))
    => /\ VerticesOf(obj) = VerticesOf(run.pre)
       /\ CountKind(obj, "marker") = CountKind(run.pre, "marker")

\* C3 (as stated) - with target unit "uu" (factor 1.0) on a document without
\* mtllib line and without marker, the coordinates keep their values and both
\* the mtllib line and the marker line are inserted, each exactly once.
C3_MarkerAtUnitScale ==
  (run.tool = "creator" /\ run.unit = "uu" /\ run.outcome = "done"
     /\ ~HasKind(run.pre, "mtllib") /\ ~HasKind(run.pre, "marker"))
    => /\ [i \in DOMAIN VerticesOf(obj) |-> VerticesOf(obj)[i].c]
            = [i \in DOMAIN VerticesOf(run.pre) |-> VerticesOf(run.pre)[i].c]
       /\ CountKind(obj, "mtllib") = 1
       /\ CountKind(obj, "marker") = 1

\* C3 (amended) - with target unit "uu" (factor 1.0) on a document without
\* mtllib line and without marker, the rewrite inserts the mtllib line exactly
\* once at the top, inserts no marker line and leaves every line, the vertex
\* lines included, as it was.
C3_UnitScale ==
  (run.tool = "creator" /\ run.unit = "uu" /\ run.outcome = "done"
     /\ ~HasKind(run.pre, "mtllib") /\ ~HasKind(run.pre, "marker"))
    => /\ obj = <<Line("mtllib", <<>>, <<>>, "rankin.mtl", "fmt")>> \o run.pre
       /\ CountKind(obj, "mtllib") = 1
       /\ CountKind(obj, "marker") = 0

\* C3 witness: such a run on a document that holds a vertex line.
C3_Witness ==
  /\ run.tool = "creator" /\ run.unit = "uu" /\ run.outcome = "done"
  /\ ~HasKind(run.pre, "mtllib") /\ ~HasKind(run.pre, "marker")
  /\ HasKind(run.pre, "v")
  /\ Len(obj) = Len(run.pre) + 1

\* C4 - the blocks of the material file are in the order sorted by raw
\* material name.
C4_SortedBlocks ==
  mtl.exists =>
    \A i, j \in DOMAIN mtl.body : i < j => StrLess(mtl.body[i].newmtl, mtl.body[j].newmtl)

\* C5 - coverage: the material file holds exactly one newmtl block for every
\* raw name used on a usemtl line of the mesh, and no block for any other name.
C5_Coverage ==
  mtl.exists =>
    /\ Range(BlockNames) = UsedNames(obj)
    /\ Len(mtl.body) = Cardinality(UsedNames(obj))

\* C5 witness: two raw names with the same normalized key, one block each.
C5_Witness ==
  /\ mtl.exists
  /\ Len(mtl.body) = 2
  /\ UsedNames(obj) = {NameAb, Namea}

\* C6 - the missing report of a completed run lists exactly the materials whose
\* block has no map_Kd directive, each once, in sorted order.
C6_MissingReport ==
  (run.outcome = "done" /\ Unresolved # {})
    => Report.exists /\ Report.body = sorted(Unresolved)

\* C7 - after a completed run the missing report exists if and only if the
\* run's list of unresolved materials is not empty.
C7_ReportIffMissing ==
  run.outcome = "done" => (Report.exists <=> run.missing # <<>>)

\* C8 - the rewrite is a 1:1 line transform: after a run every line of the
\* input is at the same relative place, non-vertex lines verbatim, vertex lines
\* replaced by vertex lines, and the only added lines are the mtllib / marker
\* lines on top.
C8_LineTransform ==
  run.tool # "none" =>
    LET added == Len(obj) - Len(run.pre)
    IN /\ added \in 0..2
       /\ \A i \in 1..added : obj[i].k \in {"mtllib", "marker"} /\ obj[i].txt = "fmt"
       /\ \A i \in DOMAIN run.pre :
            IF run.pre[i].k = "v" THEN obj[added + i].k = "v"
            ELSE obj[added + i] = run.pre[i]
       /\ Len(VerticesOf(obj)) = Len(VerticesOf(run.pre))
       /\ CountKind(obj, "mtllib") + CountKind(obj, "marker")
            = CountKind(run.pre, "mtllib") + CountKind(run.pre, "marker") + added

\* C8 witness: a run that scaled a vertex, kept another line and added both
\* the marker and the mtllib line.
C8_Witness ==
  /\ run.outcome = "done"
  /\ Len(obj) = Len(run.pre) + 2
  /\ \E i \in DOMAIN run.pre : run.pre[i].k = "v" /\ obj[i + 2] # run.pre[i]
  /\ \E i \in DOMAIN run.pre : run.pre[i].k \in {"usemtl", "other"}

\* the indirect diffuse key of a material: Diffuse, else DiffuseTexture, of the
\* shader file of its normalized key, lowercased; <<>> when there is none
IndirectKey(base) ==
  IF base \in DOMAIN shaders
  THEN lower(IF shaders[base].Diffuse # <<>> THEN shaders[base].Diffuse
             ELSE shaders[base].DiffuseTexture)
  ELSE <<>>

C10_MalformedPassThrough ==
  (run.tool # "none" /\ \E i \in DOMAIN run.pre : Malformed(run.pre[i]))
    => /\ run.outcome = "done"
       /\ \A i \in DOMAIN run.pre :
            Malformed(run.pre[i]) => \E j \in DOMAIN obj : obj[j] = run.pre[i]

====
